---- MODULE Spec2Model ----
(***************************************************************************)
(* A model of prepare_misp_object.py: the MISPObjectGenerator contract     *)
(* (_validate, _fill_object, add_link, __new_empty_object), the concrete   *)
(* File / PE / PE-section generators and the make_objects pipeline.        *)
(*                                                                         *)
(* Python dictionaries are ordered mappings: a dictionary is a sequence of *)
(* <<key, value>> pairs with pairwise distinct keys, in insertion order.   *)
(* Python's None is the string "None"; a key that a .get() does not find   *)
(* reads as None, exactly as dict.get returns it.                          *)
(***************************************************************************)
EXTENDS Integers, Sequences, FiniteSets, TLC

VARIABLES
    definition,   \* self.definition: the schema loaded at construction
    uuid,         \* self.uuid
    links,        \* self.links: sequence of <<uuid, comment>>
    values,       \* the mapping the generator's dump() hands to _fill_object
    calls,        \* history: the calls made on the generator, with their results
    pc,           \* make_objects: position in the function
    image,        \* make_objects: what the file at filepath holds
    gens,         \* make_objects: the generators constructed so far
    used,         \* make_objects: the uuids uuid.uuid4() has handed out
    pos,          \* make_objects: loop index of the current loop
    out           \* make_objects: what the function returned or raised

vars == <<definition, uuid, links, values, calls, pc, image, gens, used, pos, out>>

genVars == <<definition, uuid, links, values, calls>>
pipeVars == <<pc, image, gens, used, pos, out>>

None == "None"

\* None where the other values of the place are records or lists.
NoneRec == [none |-> TRUE]

Range(s) == {s[i] : i \in DOMAIN s}

\* The bounds of the model.
MaxCalls == 3
MaxLinks == 2
MaxSections == 2

----------------------------------------------------------------------------
(* Schemas (the JSON object definitions) and value mappings.               *)

\* Attribute keys the schemas of the model declare.
DeclaredKeys == {"md5", "size-in-bytes"}

\* Keys a values mapping may carry: the declared ones and one the schema lacks.
Keys == DeclaredKeys \cup {"tlsh"}

\* definition['attributes']: per key the misp-attribute type and the optional
\* defaults; a default the JSON leaves out reads as None through .get().
Attributes ==
    [k \in DeclaredKeys |->
        IF k = "md5"
        THEN [misp_attribute |-> "md5", disable_correlation |-> None, to_ids |-> "True"]
        ELSE [misp_attribute |-> "size-in-bytes", disable_correlation |-> "True", to_ids |-> None]]

\* Sequences without repetition over the set S.
RECURSIVE DistinctSeqs(_)
DistinctSeqs(S) ==
    {<<>>} \cup UNION {{<<k>> \o t : t \in DistinctSeqs(S \ {k})} : k \in S}

\* The schemas a generator is constructed over. An absent or empty 'required'
\* / 'requiredOneOf' list is the empty sequence: both are falsy in lines 73, 76.
Definitions ==
    [name : {"file"}, meta_category : {"file"}, description : {"File object"},
     version : {"1"}, attributes : {Attributes},
     required : DistinctSeqs(DeclaredKeys),
     requiredOneOf : DistinctSeqs(DeclaredKeys)]

\* The per-key dictionaries of a values mapping: {'value': ...} with the
\* optional overrides. "0" is a value that is falsy but not None (size 0).
ValueDicts ==
    { [value |-> None, disable_correlation |-> None, to_ids |-> None],
      [value |-> "0", disable_correlation |-> None, to_ids |-> None],
      [value |-> "v", disable_correlation |-> "False", to_ids |-> "False"] }

\* Ordered mappings key -> value dictionary over the keys of S.
RECURSIVE Mappings(_)
Mappings(S) ==
    {<<>>} \cup UNION {{<<<<k, d>>>> \o t : t \in Mappings(S \ {k}), d \in ValueDicts} : k \in S}

ValuesMappings == Mappings(Keys)

----------------------------------------------------------------------------
(* MISPObjectGenerator                                                     *)

\* uuid.uuid4(): a value it has not handed out before. Which one is immaterial,
\* so the model takes the uuids in a fixed order: 0, 1, 2, ...
uuid4(handed_out) == Cardinality(handed_out)

\* Link arguments of add_link: uuids of other generators, and the comments.
LinkTargets == {uuid4({0}), uuid4({0, 1})}
Comments == {None, "PE indicators"}

\* A call that returned ret.
Returned(ret) == [exc |-> None, ret |-> ret]

\* A call that raised exception exc with the message text and its arguments.
Raised(exc, text, args) == [exc |-> exc, text |-> text, args |-> args]

\* dict.keys() of an ordered mapping.
KeysOf(d) == {d[i][1] : i \in DOMAIN d}

\* First index of seq whose element is not in S (0 when there is none).
FirstMissing(seq, S) ==
    IF \E i \in DOMAIN seq : seq[i] \notin S
    THEN CHOOSE i \in DOMAIN seq : seq[i] \notin S /\ \A j \in 1..(i - 1) : seq[j] \in S
    ELSE 0

\* _validate reporting the last missing required key instead of the first.
validate_last_missing(def, dump) ==
    LET all_attribute_names == KeysOf(dump)
        missing == {i \in DOMAIN def.required : def.required[i] \notin all_attribute_names}
    IN  IF def.requiredOneOf # <<>> /\ Range(def.requiredOneOf) \cap all_attribute_names = {}
        THEN Raised("InvalidMISPObject",
                    "At least one of the following attributes is required: {}",
                    def.requiredOneOf)
        ELSE IF missing # {}
        THEN Raised("InvalidMISPObject", "{} is required is required",
                    <<def.required[CHOOSE i \in missing : \A j \in missing : j <= i]>>)
        ELSE Returned("True")

\* _validate(dump): True, or InvalidMISPObject.
validate(def, dump) ==
    LET all_attribute_names == KeysOf(dump)
        miss == FirstMissing(def.required, all_attribute_names)
    IN  IF def.requiredOneOf # <<>> /\ Range(def.requiredOneOf) \cap all_attribute_names = {}
        THEN Raised("InvalidMISPObject",
                    "At least one of the following attributes is required: {}",
                    def.requiredOneOf)
        ELSE IF def.required # <<>> /\ miss # 0
        THEN Raised("InvalidMISPObject", "{} is required is required",
                    <<def.required[miss]>>)
        ELSE Returned("True")

\* __new_empty_object drawing a uuid of its own for every record.
new_empty_object_fresh(def, self_uuid) ==
    [name |-> def.name, meta_category |-> def.meta_category,
     uuid |-> uuid4({self_uuid}),
     description |-> def.description, version |-> def.version,
     ObjectAttribute |-> <<>>]

\* __new_empty_object(object_definition)
new_empty_object(def, self_uuid) ==
    [name |-> def.name, meta_category |-> def.meta_category, uuid |-> self_uuid,
     description |-> def.description, version |-> def.version,
     ObjectAttribute |-> <<>>]

\* Lines 43-48: the ObjectReference key exists only when self.links is not empty.
with_references(empty_object, self_links) ==
    IF self_links # <<>>
    THEN [ObjectReference |->
            [i \in DOMAIN self_links |->
                [referenced_object_uuid |-> self_links[i][1],
                 comment |-> self_links[i][2]]]] @@ empty_object
    ELSE empty_object

\* Lines 56-65: the MISPAttribute of one value dictionary.
attribute_of(def, object_type, value) ==
    LET decl == def.attributes[object_type]
    IN  [type |-> decl.misp_attribute,
         value |-> value.value,
         disable_correlation |->
            IF value.disable_correlation = None
            THEN decl.disable_correlation ELSE value.disable_correlation,
         to_ids |-> IF value.to_ids = None THEN decl.to_ids ELSE value.to_ids]

\* The loop of _fill_object skipping every falsy value ("if not value.get('value')").
RECURSIVE fill_attributes_truthy(_, _, _, _)
fill_attributes_truthy(def, object, vals, i) ==
    IF i > Len(vals) THEN Returned(object)
    ELSE LET object_type == vals[i][1]
             value == vals[i][2]
         IN  IF value.value \in {None, "0"}
             THEN fill_attributes_truthy(def, object, vals, i + 1)
             ELSE IF object_type \notin DOMAIN def.attributes
             THEN Raised("KeyError", "{}", <<object_type>>)
             ELSE fill_attributes_truthy(
                    def,
                    [object EXCEPT !.ObjectAttribute =
                        Append(@, [type |-> object_type,
                                   Attribute |-> attribute_of(def, object_type, value)])],
                    vals, i + 1)

\* Lines 49-68: the loop over values.items(), from item i on.
RECURSIVE fill_attributes(_, _, _, _)
fill_attributes(def, object, vals, i) ==
    IF i > Len(vals) THEN Returned(object)
    ELSE LET object_type == vals[i][1]
             value == vals[i][2]
         IN  IF value.value = None
             THEN fill_attributes(def, object, vals, i + 1)
             ELSE IF object_type \notin DOMAIN def.attributes
             THEN Raised("KeyError", "{}", <<object_type>>)
             ELSE fill_attributes(
                    def,
                    [object EXCEPT !.ObjectAttribute =
                        Append(@, [type |-> object_type,
                                   Attribute |-> attribute_of(def, object_type, value)])],
                    vals, i + 1)

\* _fill_object that never validates, whatever strict says.
fill_object_unchecked(def, self_uuid, self_links, vals, strict) ==
    fill_attributes(
        def, with_references(new_empty_object(def, self_uuid), self_links), vals, 1)

\* _fill_object(values, strict)
fill_object(def, self_uuid, self_links, vals, strict) ==
    LET v == validate(def, vals)
    IN  IF strict /\ v.exc # None THEN v
        ELSE fill_attributes(
                def, with_references(new_empty_object(def, self_uuid), self_links),
                vals, 1)

\* The pipeline's variables while a single generator is exercised.
PipeIdle ==
    /\ pc = "idle" /\ image = NoneRec /\ gens = NoneRec /\ used = {} /\ pos = 0
    /\ out = NoneRec

\* __init__: the schema is loaded, a uuid drawn, no links.
InitGenerator ==
    /\ definition \in Definitions
    /\ uuid = uuid4({})
    /\ links = <<>>
    /\ calls = <<>>
    /\ PipeIdle

\* add_link putting the new link first.
add_link_prepend(target, comment) ==
    /\ Len(calls) < MaxCalls
    /\ Len(links) < MaxLinks
    /\ links' = <<<<target, comment>>>> \o links
    /\ calls' = Append(calls, [op |-> "add_link", target |-> target,
                                comment |-> comment, result |-> Returned(None)])
    /\ UNCHANGED <<definition, uuid, values, pipeVars>>

\* add_link(uuid, comment)
add_link(target, comment) ==
    /\ Len(calls) < MaxCalls
    /\ Len(links) < MaxLinks
    /\ links' = Append(links, <<target, comment>>)
    /\ calls' = Append(calls, [op |-> "add_link", target |-> target,
                                comment |-> comment, result |-> Returned(None)])
    /\ UNCHANGED <<definition, uuid, values, pipeVars>>

\* A call of _validate(values).
call_validate ==
    /\ Len(calls) < MaxCalls
    /\ calls' = Append(calls, [op |-> "validate", result |-> validate(definition, values)])
    /\ UNCHANGED <<definition, uuid, links, values, pipeVars>>

\* A call of _fill_object(values, strict), as every dump() ends with.
call_fill_object(strict) ==
    /\ Len(calls) < MaxCalls
    /\ calls' = Append(calls,
                  [op |-> "fill_object", strict |-> strict, nlinks |-> Len(links),
                   result |-> fill_object(definition, uuid, links, values, strict)])
    /\ UNCHANGED <<definition, uuid, links, values, pipeVars>>

\* A generator through its life: links are added, the record is dumped.
Init ==
    /\ InitGenerator
    /\ values \in {m \in ValuesMappings : Len(m) <= 1}

Next ==
    \/ \E target \in LinkTargets, comment \in Comments : add_link(target, comment)
    \/ call_validate
    \/ \E strict \in BOOLEAN : call_fill_object(strict)

Spec == Init /\ [][Next]_vars

\* Validation and assembly over every values mapping, no links involved.
InitFill ==
    /\ InitGenerator
    /\ values \in ValuesMappings

NextFill ==
    \/ call_validate
    \/ \E strict \in BOOLEAN : call_fill_object(strict)

SpecFill == InitFill /\ [][NextFill]_vars

----------------------------------------------------------------------------
(* The concrete generators and make_objects.                               *)
(*                                                                         *)
(* A generator is a record whose fields are the instance attributes set so *)
(* far: hasattr(self, n) is  n \in DOMAIN self.                             *)

\* The schemas of the three object names. The JSON documents live in the
\* misp-objects schema store, outside this repository: the model declares in
\* each every key the generator's dump() emits and requires keys that dump()
\* always emits, so that the records of make_objects pass their validation.
SchemaOver(name, keys, required, requiredOneOf) ==
    [name |-> name, meta_category |-> "file", description |-> name,
     version |-> "1",
     attributes |-> [k \in keys |->
        [misp_attribute |-> k, disable_correlation |-> None, to_ids |-> None]],
     required |-> required, requiredOneOf |-> requiredOneOf]

FileDefinition ==
    SchemaOver("file",
        {"filename", "size-in-bytes", "entropy", "ssdeep", "sha512", "md5",
         "sha1", "sha256", "malware-sample"},
        <<>>, <<"filename", "size-in-bytes", "md5", "sha1", "sha256">>)

PEDefinition ==
    SchemaOver("pe",
        {"type", "imphash", "original-filename", "internal-filename",
         "compilation-timestamp", "entrypoint-section|position",
         "entrypoint-address", "file-description", "file-version", "lang-id",
         "product-name", "product-version", "company-name", "number-sections"},
        <<"type">>, <<>>)

PESectionDefinition ==
    SchemaOver("pe-section",
        {"name", "size-in-bytes", "entropy", "md5", "sha1", "sha256", "sha512",
         "ssdeep"},
        <<"name">>, <<>>)

\* The sections an image may hold (all_data['PE Sections'] entries).
SectionInfos ==
    { [Name |-> ".text", VirtualAddress |-> 0, Misc_VirtualSize |-> 2, SizeOfRawData |-> 1],
      [Name |-> ".data", VirtualAddress |-> 2, Misc_VirtualSize |-> 2, SizeOfRawData |-> 0],
      [Name |-> ".rsrc", VirtualAddress |-> 2, Misc_VirtualSize |-> 1, SizeOfRawData |-> 1] }

RECURSIVE SeqsUpTo(_, _)
SeqsUpTo(S, n) ==
    IF n = 0 THEN {<<>>}
    ELSE SeqsUpTo(S, n - 1) \cup {Append(t, x) : t \in {u \in SeqsUpTo(S, n - 1) : Len(u) = n - 1}, x \in S}

\* What pefile reports of a buffer it parses: the three type predicates, the
\* optional fields of dump_dict() and the sections.
PEImages ==
    [size : {1}, is_pe : {TRUE},
     is_dll : BOOLEAN, is_driver : BOOLEAN, is_exe : BOOLEAN,
     has_debug : BOOLEAN,
     has_entrypoint : BOOLEAN, entrypoint : {1, 3},
     file_info : {"absent", "partial", "full"},
     sections : SeqsUpTo(SectionInfos, MaxSections)]

\* A buffer pefile.PE() rejects with PEFormatError (an empty file among them).
OtherFiles ==
    [size : {0, 1}, is_pe : {FALSE},
     is_dll : {FALSE}, is_driver : {FALSE}, is_exe : {FALSE},
     has_debug : {FALSE},
     has_entrypoint : {FALSE}, entrypoint : {1},
     file_info : {"absent"},
     sections : {<<>>}]

Images == PEImages \cup OtherFiles

\* {'value': x}
V(x) == [value |-> x, disable_correlation |-> None, to_ids |-> None]

\* if hasattr(self, attr): mapping[key] = {'value': self.attr}
Field(self, attr, key) ==
    IF attr \in DOMAIN self THEN <<<<key, V(self[attr])>>>> ELSE <<>>

\* MISPObjectGenerator.__init__(object_definition)
generator_init(def, handed_out) ==
    [definition |-> def, uuid |-> uuid4(handed_out), links |-> <<>>]

\* FileObject.__init__ with generate_attributes
FileObject(img, handed_out) ==
    LET base == [filename |-> "sample", size |-> img.size]
                    @@ generator_init(FileDefinition, handed_out)
    IN  IF img.size > 0
        THEN [filetype |-> "data", entropy |-> "H", md5 |-> "md5(data)",
              sha1 |-> "sha1(data)", sha256 |-> "sha256(data)",
              sha512 |-> "sha512(data)", ssdeep |-> "ssdeep(data)"] @@ base
        ELSE base

\* FileObject.dump: the mapping handed to _fill_object
file_values(self) ==
    <<<<"filename", V(self.filename)>>, <<"size-in-bytes", V(ToString(self.size))>>>>
    \o (IF self.size > 0
        THEN << <<"entropy", V(self.entropy)>>, <<"ssdeep", V(self.ssdeep)>>,
                <<"sha512", V(self.sha512)>>, <<"md5", V(self.md5)>>,
                <<"sha1", V(self.sha1)>>, <<"sha256", V(self.sha256)>>,
                <<"malware-sample", V(self.filename \o "|" \o self.md5)>> >>
        ELSE <<>>)

\* PESectionObject.__init__ with generate_attributes
PESectionObject(section_info, handed_out) ==
    LET base == [name |-> section_info.Name, size |-> section_info.SizeOfRawData]
                    @@ generator_init(PESectionDefinition, handed_out)
    IN  IF section_info.SizeOfRawData > 0
        THEN [entropy |-> "H", md5 |-> "md5(section)", sha1 |-> "sha1(section)",
              sha256 |-> "sha256(section)", sha512 |-> "sha512(section)",
              ssdeep |-> "ssdeep(section)"] @@ base
        ELSE base

\* PESectionObject.dump: the mapping handed to _fill_object
section_values(self) ==
    <<<<"name", V(self.name)>>, <<"size-in-bytes", V(ToString(self.size))>>>>
    \o (IF self.size > 0
        THEN << <<"entropy", V(self.entropy)>>, <<"md5", V(self.md5)>>,
                <<"sha1", V(self.sha1)>>, <<"sha256", V(self.sha256)>>,
                <<"sha512", V(self.sha512)>>, <<"ssdeep", V(self.ssdeep)>> >>
        ELSE <<>>)

\* PEObject.generate_attributes, lines 172-198: everything before the sections.
pe_header_attributes(img) ==
    LET pe_type == IF img.is_dll THEN "dll"
                   ELSE IF img.is_driver THEN "driver"
                   ELSE IF img.is_exe THEN "exe" ELSE "unknown"
        general == [pe_type |-> pe_type, imphash |-> "imphash", sections |-> <<>>]
        debug == IF img.has_debug
                 THEN [compilation_timestamp |-> "ISO Time"] @@ general ELSE general
        entry == IF img.has_entrypoint
                 THEN [entrypoint_address |-> img.entrypoint] @@ debug ELSE debug
        info(found) ==
            [original_filename |-> IF found THEN "OriginalFilename" ELSE None,
             internal_filename |-> "InternalName",
             file_description |-> "FileDescription",
             file_version |-> "FileVersion",
             lang_id |-> IF found THEN "LangID" ELSE None,
             product_name |-> "ProductName",
             product_version |-> "ProductVersion",
             company_name |-> "CompanyName",
             legal_copyright |-> "LegalCopyright"]
    IN  IF img.file_info = "absent" THEN entry
        ELSE info(img.file_info = "full") @@ entry

\* PEObject.dump: the mapping handed to _fill_object
pe_values(self) ==
    <<<<"type", V(self.pe_type)>>>>
    \o Field(self, "imphash", "imphash")
    \o Field(self, "original_filename", "original-filename")
    \o Field(self, "internal_filename", "internal-filename")
    \o Field(self, "compilation_timestamp", "compilation-timestamp")
    \o (IF "entrypoint_section" \in DOMAIN self
        THEN <<<<"entrypoint-section|position",
                 V(self.entrypoint_section[1] \o "|" \o ToString(self.entrypoint_section[2]))>>>>
        ELSE <<>>)
    \o (IF "entrypoint_address" \in DOMAIN self
        THEN <<<<"entrypoint-address", V(ToString(self.entrypoint_address))>>>>
        ELSE <<>>)
    \o Field(self, "file_description", "file-description")
    \o Field(self, "file_version", "file-version")
    \o Field(self, "lang_id", "lang-id")
    \o Field(self, "product_name", "product-name")
    \o Field(self, "product_version", "product-version")
    \o Field(self, "company_name", "company-name")
    \o (IF "nb_sections" \in DOMAIN self
        THEN <<<<"number-sections", V(ToString(self.nb_sections))>>>>
        ELSE <<>>)

\* dump() of a generator: _fill_object(values), strict by default.
dump(self, vals) == fill_object(self.definition, self.uuid, self.links, vals, TRUE)

\* The generator variables while make_objects runs.
GenIdle ==
    /\ definition = FileDefinition /\ uuid = uuid4({}) /\ links = <<>>
    /\ values = <<>> /\ calls = <<>>

InitPipeline ==
    /\ GenIdle
    /\ pc = "file_init"
    /\ image \in Images
    /\ gens = [file |-> NoneRec, pe |-> NoneRec]
    /\ used = {}
    /\ pos = 0
    /\ out = [file_object |-> NoneRec, pe_object |-> NoneRec, pe_sections |-> NoneRec,
              exc |-> None, returned |-> FALSE]

\* Line 281: misp_file = FileObject(filepath)
file_init ==
    /\ pc = "file_init"
    /\ gens' = [gens EXCEPT !.file = FileObject(image, used)]
    /\ used' = used \cup {uuid4(used)}
    /\ pc' = "pe_init"
    /\ UNCHANGED <<image, pos, out, genVars>>

\* Lines 283-284 in the other order: the file is linked to the executable's
\* uuid before pefile.PE has accepted the buffer.
pe_init_link_first ==
    /\ pc = "pe_init"
    /\ used' = used \cup {uuid4(used)}
    /\ IF image.is_pe
       THEN /\ gens' = [gens EXCEPT !.pe = pe_header_attributes(image)
                                            @@ generator_init(PEDefinition, used)]
            /\ pc' = "pe_sections"
       ELSE /\ gens' = [gens EXCEPT !.file.links = Append(@, <<uuid4(used), "PE indicators">>)]
            /\ pc' = "fallback"
    /\ pos' = 0
    /\ UNCHANGED <<image, out, genVars>>

\* Line 283 up to the sections loop: MISPObjectGenerator.__init__ draws the uuid,
\* pefile.PE parses the buffer or raises PEFormatError, which line 291 catches.
pe_init ==
    /\ pc = "pe_init"
    /\ used' = used \cup {uuid4(used)}
    /\ IF image.is_pe
       THEN /\ gens' = [gens EXCEPT !.pe = pe_header_attributes(image)
                                            @@ generator_init(PEDefinition, used)]
            /\ pc' = "pe_sections"
       ELSE /\ gens' = gens
            /\ pc' = "fallback"
    /\ pos' = 0
    /\ UNCHANGED <<image, out, genVars>>

\* Line 206 linking the executable to itself instead of to the section.
section_link_self(self, section, position) ==
    Append(self.links, <<self.uuid, "Section " \o ToString(position) \o " of PE">>)

\* Line 206: self.add_link(section.uuid, 'Section {} of PE'.format(pos))
section_link(self, section, position) ==
    Append(self.links, <<section.uuid, "Section " \o ToString(position) \o " of PE">>)

\* Lines 203-211: one turn of the loop over all_data['PE Sections'].
pe_section_step ==
    /\ pc = "pe_sections"
    /\ pos < Len(image.sections)
    /\ LET s == image.sections[pos + 1]
           section == PESectionObject(s, used)
           self == gens.pe
           linked == [self EXCEPT !.links = section_link(self, section, pos)]
       IN  /\ used' = used \cup {uuid4(used)}
           /\ IF "entrypoint_address" \notin DOMAIN self
              THEN \* line 207 reads an attribute that was never set
                   /\ pc' = "raised"
                   /\ out' = [out EXCEPT !.exc = "AttributeError"]
                   /\ gens' = [gens EXCEPT !.pe = linked]
                   /\ pos' = pos
              ELSE /\ LET addr == self.entrypoint_address
                          found == /\ addr >= s.VirtualAddress
                                   /\ addr < s.VirtualAddress + s.Misc_VirtualSize
                          marked == IF found
                                    THEN IF "entrypoint_section" \in DOMAIN linked
                                         THEN [linked EXCEPT !.entrypoint_section = <<s.Name, pos>>]
                                         ELSE [entrypoint_section |-> <<s.Name, pos>>] @@ linked
                                    ELSE linked
                      IN  gens' = [gens EXCEPT !.pe =
                                     [marked EXCEPT !.sections = Append(@, section)]]
                   /\ pos' = pos + 1
                   /\ pc' = pc
                   /\ out' = out
    /\ UNCHANGED <<image, genVars>>

\* Line 212: the loop is over, nb_sections is set; PEObject() returns.
pe_init_done ==
    /\ pc = "pe_sections"
    /\ pos = Len(image.sections)
    /\ gens' = [gens EXCEPT !.pe = [nb_sections |-> Len(@.sections)] @@ @]
    /\ pc' = "link"
    /\ UNCHANGED <<image, used, pos, out, genVars>>

\* Line 284: misp_file.add_link(misp_pe.uuid, 'PE indicators')
link_file ==
    /\ pc = "link"
    /\ gens' = [gens EXCEPT !.file.links = Append(@, <<gens.pe.uuid, "PE indicators">>)]
    /\ pc' = "dump_file"
    /\ UNCHANGED <<image, used, pos, out, genVars>>

\* Store the result of a dump() in the field of out, or leave with its exception.
Dumped(field, result, next_pc) ==
    IF result.exc = None
    THEN /\ out' = [out EXCEPT ![field] = result.ret]
         /\ pc' = next_pc
    ELSE /\ out' = [out EXCEPT !.exc = result.exc]
         /\ pc' = "raised"

\* Line 285: file_object = misp_file.dump()
dump_file ==
    /\ pc = "dump_file"
    /\ Dumped("file_object", dump(gens.file, file_values(gens.file)), "dump_pe")
    /\ UNCHANGED <<image, gens, used, pos, genVars>>

\* Lines 286-287: pe_object = misp_pe.dump(); pe_sections = []
dump_pe ==
    /\ pc = "dump_pe"
    /\ LET result == dump(gens.pe, pe_values(gens.pe))
       IN  IF result.exc = None
           THEN /\ out' = [out EXCEPT !.pe_object = result.ret, !.pe_sections = <<>>]
                /\ pc' = "dump_sections"
           ELSE /\ out' = [out EXCEPT !.exc = result.exc]
                /\ pc' = "raised"
    /\ pos' = 0
    /\ UNCHANGED <<image, gens, used, genVars>>

\* Lines 288-289: pe_sections.append(s.dump())
dump_section ==
    /\ pc = "dump_sections"
    /\ pos < Len(gens.pe.sections)
    /\ LET s == gens.pe.sections[pos + 1]
           result == dump(s, section_values(s))
       IN  IF result.exc = None
           THEN /\ out' = [out EXCEPT !.pe_sections = Append(@, result.ret)]
                /\ pc' = pc
           ELSE /\ out' = [out EXCEPT !.exc = result.exc]
                /\ pc' = "raised"
    /\ pos' = pos + 1
    /\ UNCHANGED <<image, gens, used, genVars>>

\* Line 290: return file_object, pe_object, pe_sections
return_triple ==
    /\ pc = "dump_sections"
    /\ pos = Len(gens.pe.sections)
    /\ out' = [out EXCEPT !.returned = TRUE]
    /\ pc' = "done"
    /\ UNCHANGED <<image, gens, used, pos, genVars>>

\* Lines 291-294: PEFormatError was caught; dump the file alone.
fallback ==
    /\ pc = "fallback"
    /\ LET result == dump(gens.file, file_values(gens.file))
       IN  IF result.exc = None
           THEN /\ out' = [out EXCEPT !.file_object = result.ret, !.returned = TRUE]
                /\ pc' = "done"
           ELSE /\ out' = [out EXCEPT !.exc = result.exc]
                /\ pc' = "raised"
    /\ UNCHANGED <<image, gens, used, pos, genVars>>

\* make_objects(filepath)
make_objects ==
    \/ file_init
    \/ pe_init
    \/ pe_section_step
    \/ pe_init_done
    \/ link_file
    \/ dump_file
    \/ dump_pe
    \/ dump_section
    \/ return_triple
    \/ fallback

SpecPipeline == InitPipeline /\ [][make_objects]_vars

----------------------------------------------------------------------------
(* The claims.                                                             *)

\* The indices of the logged calls of one operation.
CallsOf(op) == {i \in DOMAIN calls : calls[i].op = op}

\* The keys of values whose value is not None, in insertion order.
NonNullKeys ==
    LET kept == SelectSeq(values, LAMBDA item : item[2].value # None)
    IN  [n \in DOMAIN kept |-> kept[n][1]]

\* The keys a record carries an attribute for, in order.
EmittedKeys(object) ==
    [n \in DOMAIN object.ObjectAttribute |-> object.ObjectAttribute[n].type]

\* The reference list of a record; a record without the key has none.
References(object) ==
    IF "ObjectReference" \in DOMAIN object THEN object.ObjectReference ELSE <<>>

\* The <<uuid, comment>> arguments of the add_link calls logged before call i.
LinksBefore(i) ==
    LET earlier == SelectSeq(SubSeq(calls, 1, i - 1), LAMBDA c : c.op = "add_link")
    IN  [n \in DOMAIN earlier |->
            [referenced_object_uuid |-> earlier[n].target, comment |-> earlier[n].comment]]

\* C1: _fill_object with strict=True raises InvalidMISPObject exactly when
\* _validate raises on the same values, and then returns no record; when
\* _validate passes, the strict call ends as the non-strict call does.
C1_StrictIsValidateThenFill ==
    \A i \in CallsOf("fill_object") : calls[i].strict =>
        \A j \in CallsOf("validate") :
            /\ (calls[i].result.exc = "InvalidMISPObject") <=> (calls[j].result.exc # None)
            /\ calls[j].result.exc # None =>
                /\ "ret" \notin DOMAIN calls[i].result
                /\ calls[i].result = calls[j].result
            /\ calls[j].result.exc = None =>
                \A k \in CallsOf("fill_object") :
                    ~calls[k].strict => calls[k].result = calls[i].result

\* C1 witness: validation failed, the strict call raised and the non-strict
\* call on the same values returned a record with an attribute.
C1_Witness ==
    \E i, k \in CallsOf("fill_object") : \E j \in CallsOf("validate") :
        /\ calls[i].strict /\ ~calls[k].strict
        /\ calls[j].result.exc = "InvalidMISPObject"
        /\ calls[i].result.exc = "InvalidMISPObject"
        /\ calls[k].result.exc = None
        /\ calls[k].result.ret.ObjectAttribute # <<>>

\* C2 (as claimed): with a non-empty requiredOneOf, _validate returns True only
\* if some key of requiredOneOf is in values with a value that is not None.
C2_OneOfNeedsNonNullValue ==
    \A j \in CallsOf("validate") :
        (definition.requiredOneOf # <<>> /\ calls[j].result.exc = None) =>
            \E n \in DOMAIN values :
                /\ values[n][1] \in Range(definition.requiredOneOf)
                /\ values[n][2].value # None

\* The requiredOneOf check of line 74 passes: no list, or one of its keys is a
\* key of values.
OneOfCheckPasses ==
    \/ definition.requiredOneOf = <<>>
    \/ \E n \in DOMAIN values : values[n][1] \in Range(definition.requiredOneOf)

\* The result names required[i] as the missing key, and it is the first one.
NamesFirstMissing(result) ==
    /\ result.exc = "InvalidMISPObject"
    /\ result.text = "{} is required is required"
    /\ \E i \in DOMAIN definition.required :
        /\ result.args = <<definition.required[i]>>
        /\ definition.required[i] \notin KeysOf(values)
        /\ \A n \in 1..(i - 1) : definition.required[n] \in KeysOf(values)

\* The result is an InvalidMISPObject whose message mentions the first key of
\* required that values lacks (whatever the wording of the message).
MentionsFirstMissing(result) ==
    /\ result.exc = "InvalidMISPObject"
    /\ \E i \in DOMAIN definition.required :
        /\ definition.required[i] \in Range(result.args)
        /\ definition.required[i] \notin KeysOf(values)
        /\ \A n \in 1..(i - 1) : definition.required[n] \in KeysOf(values)

\* C3 (as claimed): whenever a required key is absent from values, _validate
\* raises InvalidMISPObject naming the first missing key of the required list;
\* with every required key present and the requiredOneOf check passing it
\* returns True.
C3_MissingRequiredIsNamed ==
    \A j \in CallsOf("validate") :
        IF Range(definition.required) \subseteq KeysOf(values)
        THEN OneOfCheckPasses => calls[j].result = Returned("True")
        ELSE MentionsFirstMissing(calls[j].result)

\* C3 (amended): whenever a required key is absent from values, _validate
\* raises InvalidMISPObject; the error names the first missing key of the
\* required list when the requiredOneOf check passes, and is the requiredOneOf
\* error listing the candidates otherwise. With every required key present and
\* the requiredOneOf check passing it returns True.
C3_MissingRequiredIsNamedAfterOneOf ==
    \A j \in CallsOf("validate") :
        IF Range(definition.required) \subseteq KeysOf(values)
        THEN OneOfCheckPasses => calls[j].result = Returned("True")
        ELSE IF OneOfCheckPasses
        THEN NamesFirstMissing(calls[j].result)
        ELSE /\ calls[j].result.exc = "InvalidMISPObject"
             /\ calls[j].result.args = definition.requiredOneOf

\* C3 witness: two keys are required, values holds another key only, and the
\* error names the first of the two.
C3_Witness ==
    \E j \in CallsOf("validate") :
        /\ Len(definition.required) = 2
        /\ KeysOf(values) = {"tlsh"}
        /\ definition.requiredOneOf = <<>>
        /\ calls[j].result.exc = "InvalidMISPObject"
        /\ calls[j].result.args = <<definition.required[1]>>

\* C4: when every key of values with a non-None value is declared in the
\* schema, a non-strict _fill_object returns a record, and any record
\* _fill_object returns has exactly one attribute per key whose value is not
\* None, in the insertion order of values, carrying that value.
C4_AttributesAreNonNullKeysInOrder ==
    \A i \in CallsOf("fill_object") :
        /\ (Range(NonNullKeys) \subseteq DOMAIN definition.attributes /\ ~calls[i].strict)
                => calls[i].result.exc = None
        /\ calls[i].result.exc = None =>
            /\ EmittedKeys(calls[i].result.ret) = NonNullKeys
            /\ \A n \in DOMAIN values :
                LET at == {m \in DOMAIN calls[i].result.ret.ObjectAttribute :
                            calls[i].result.ret.ObjectAttribute[m].type = values[n][1]}
                IN  IF values[n][2].value = None THEN at = {}
                    ELSE /\ Cardinality(at) = 1
                         /\ \A m \in at :
                            calls[i].result.ret.ObjectAttribute[m].Attribute.value
                                = values[n][2].value

\* C4 witness: a record of two attributes from a mapping of three keys, one of
\* them None and one of them the falsy "0".
C4_Witness ==
    \E i \in CallsOf("fill_object") :
        /\ calls[i].result.exc = None
        /\ Len(values) = 3
        /\ Len(calls[i].result.ret.ObjectAttribute) = 2
        /\ \E n \in DOMAIN values : values[n][2].value = "0"

\* C10 (as claimed): a record returned by a strict _fill_object carries an
\* attribute for every key of required and, with a non-empty requiredOneOf,
\* for at least one key of requiredOneOf.
C10_RequiredKeysAreEmitted ==
    \A i \in CallsOf("fill_object") :
        (calls[i].strict /\ calls[i].result.exc = None) =>
            LET emitted == Range(EmittedKeys(calls[i].result.ret))
            IN  /\ Range(definition.required) \subseteq emitted
                /\ definition.requiredOneOf # <<>> =>
                        Range(definition.requiredOneOf) \cap emitted # {}

\* C7: every record _fill_object returns carries the uuid drawn at
\* construction, whatever add_link and dump calls came before.
C7_UuidIsFixed ==
    /\ uuid = uuid4({})
    /\ \A i \in CallsOf("fill_object") :
        calls[i].result.exc = None => calls[i].result.ret.uuid = uuid4({})

\* C7 witness: two records were returned with an add_link in between.
C7_Witness ==
    \E i, k \in CallsOf("fill_object") : \E j \in CallsOf("add_link") :
        /\ i < j /\ j < k
        /\ calls[i].result.exc = None /\ calls[k].result.exc = None

\* C8 (as claimed): the record's reference list exists and equals, in order,
\* the add_link calls made before the dump: an empty list when there were none.
C8_ReferencesAreListOfLinks ==
    \A i \in CallsOf("fill_object") :
        calls[i].result.exc = None =>
            /\ "ObjectReference" \in DOMAIN calls[i].result.ret
            /\ calls[i].result.ret.ObjectReference = LinksBefore(i)

\* C8 (amended): the record's reference list equals, in order, the add_link
\* calls made before the dump; when there were none the record has no
\* ObjectReference key at all. Later add_link calls do not change it.
C8_ReferencesAreLinksWhenAny ==
    \A i \in CallsOf("fill_object") :
        calls[i].result.exc = None =>
            IF LinksBefore(i) = <<>>
            THEN "ObjectReference" \notin DOMAIN calls[i].result.ret
            ELSE /\ "ObjectReference" \in DOMAIN calls[i].result.ret
                 /\ calls[i].result.ret.ObjectReference = LinksBefore(i)

\* C8 witness: a record dumped after one add_link, and a second add_link after
\* the dump.
C8_Witness ==
    \E i \in CallsOf("fill_object") : \E j, k \in CallsOf("add_link") :
        /\ j < i /\ i < k
        /\ calls[i].result.exc = None
        /\ Len(References(calls[i].result.ret)) = 1
        /\ Len(links) = 2

\* C5: when make_objects returns a file, an executable and its N sections,
\* the file record has exactly one reference, to the executable's uuid, and the
\* executable record has exactly N references, the i-th to the uuid of the i-th
\* section record, all distinct.
C5_LinksOfTheTriple ==
    (pc = "done" /\ out.pe_object # NoneRec) =>
        LET file_refs == References(out.file_object)
            pe_refs == References(out.pe_object)
        IN  /\ Len(file_refs) = 1
            /\ file_refs[1].referenced_object_uuid = out.pe_object.uuid
            /\ Len(out.pe_sections) = Len(image.sections)
            /\ Len(pe_refs) = Len(image.sections)
            /\ \A i \in DOMAIN pe_refs :
                pe_refs[i].referenced_object_uuid = out.pe_sections[i].uuid
            /\ \A i, j \in DOMAIN pe_refs :
                i # j => pe_refs[i].referenced_object_uuid # pe_refs[j].referenced_object_uuid

\* C5 witness: a triple with two sections was returned.
C5_Witness ==
    /\ pc = "done"
    /\ out.returned
    /\ out.pe_object # NoneRec
    /\ Len(image.sections) = 2
    /\ Len(References(out.pe_object)) = 2

\* C6: when pefile.PE rejects the buffer, make_objects raises nothing and
\* returns the file record with None for the executable and for the sections,
\* and the file record has no reference.
C6_FallbackToFileAlone ==
    ~image.is_pe =>
        /\ pc # "raised"
        /\ out.exc = None
        /\ pc = "done" =>
            /\ out.returned
            /\ out.file_object # NoneRec
            /\ out.pe_object = NoneRec
            /\ out.pe_sections = NoneRec
            /\ References(out.file_object) = <<>>

\* C6 witness: make_objects returned for a file that is no executable.
C6_Witness ==
    /\ ~image.is_pe
    /\ image.size > 0
    /\ pc = "done"
    /\ out.returned
    /\ out.file_object # NoneRec

\* C9 (as claimed): for an image pefile parses, whatever optional fields it
\* lacks, construction and dump of the executable generator raise nothing.
C9_ParsedImageNeverRaises ==
    image.is_pe => (pc # "raised" /\ out.exc = None)

====
